---- MODULE Spec2Model ----
(***************************************************************************)
(* Pareto fronts and non-domination ranks of optuna's multi-objective      *)
(* study (src/optuna/study/_multi_objective.py).                           *)
(*                                                                         *)
(* Encodings.  An Optional[float] is a tuple: None is <<>> and the float v *)
(* is <<v>>.  A float is an integer; float("inf") is the integer Inf,      *)
(* larger than every finite value of the model, so that negation and the   *)
(* comparisons of the code act on it as they do on IEEE infinities.  A     *)
(* numpy NaN (penalty only) is <<>> as well: every comparison with it is   *)
(* False.  A Python call that raises yields [exc |-> <name>]; exc = "None" *)
(* means the call returned ret.                                            *)
(***************************************************************************)
EXTENDS Integers, Sequences, FiniteSets

VARIABLES
    pc,                 \* position of the caller
    trials,             \* Sequence[FrozenTrial]
    directions,         \* Sequence[StudyDirection]
    dominance,          \* results of _dominates over the pairs of trials
    normalized,         \* results of _normalize_value over the values of trials
    pareto_front_2d,    \* result of _get_pareto_front_trials_2d
    pareto_front_nd,    \* result of _get_pareto_front_trials_nd
    pareto_front,       \* result of _get_pareto_front_trials_by_trials
    front_ranks,        \* result of _calculate_nondomination_rank on the trials' rows
    objective_values,   \* _fast_non_dominated_sort: argument
    penalty,            \* _fast_non_dominated_sort: argument
    n_below,            \* _fast_non_dominated_sort: argument
    nondomination_rank, \* _fast_non_dominated_sort: local
    feasible_bottom_rank,   \* _fast_non_dominated_sort: local
    infeasible_bottom_rank, \* _fast_non_dominated_sort: local
    calc,               \* the running call of _calculate_nondomination_rank
    result              \* what _fast_non_dominated_sort returned

frontVars == <<trials, directions, dominance, normalized,
               pareto_front_2d, pareto_front_nd, pareto_front, front_ranks>>

sortArgs == <<objective_values, penalty, n_below>>

sortVars == <<objective_values, penalty, n_below, nondomination_rank,
              feasible_bottom_rank, infeasible_bottom_rank, calc, result>>

vars == <<pc, frontVars, sortVars>>

----------------------------------------------------------------------------
(* Bounds of the model. *)

MaxTrials == 3
MaxRows == 3
MaxSortRows == 4
MaxTermRows == 2

\* float("inf"), src line 192
Inf == 1000

None == <<>>
Some(v) == <<v>>

MINIMIZE == "MINIMIZE"
MAXIMIZE == "MAXIMIZE"
StudyDirection == {MINIMIZE, MAXIMIZE}

COMPLETE == "COMPLETE"
RUNNING == "RUNNING"
TrialState == {COMPLETE, RUNNING}

\* Finite objective values the nullable inputs are drawn from.
FiniteValues == {0, 1}
\* Optional[float] objective values.
OptValues == {None} \cup {Some(v) : v \in FiniteValues}

Unset == [exc |-> "unset"]
Returned(v) == [exc |-> "None", ret |-> v]
Raised(e) == [exc |-> e]

Range(s) == {s[i] : i \in 1..Len(s)}

----------------------------------------------------------------------------
(* _normalize_value, lines 190-197 *)

_normalize_value(value, direction) ==
    LET v == IF value = None THEN Inf ELSE value[1]
    IN  IF direction = MAXIMIZE THEN -v ELSE v

(* zip(values, directions) of lines 181-182: as long as the shorter one *)
Zip(values, dirs) ==
    LET n == IF Len(values) < Len(dirs) THEN Len(values) ELSE Len(dirs)
    IN  [i \in 1..n |-> <<values[i], dirs[i]>>]

NormalizedValues(values, dirs) ==
    LET z == Zip(values, dirs)
    IN  [i \in 1..Len(z) |-> _normalize_value(z[i][1], z[i][2])]

(* _dominates without the test of line 184: equal vectors dominate each     *)
(* other                                                                    *)
_dominates_NoEqualCheck(trial0, trial1, dirs) ==
    LET values0 == trial0.values
        values1 == trial1.values
        normalized_values0 == NormalizedValues(values0, dirs)
        normalized_values1 == NormalizedValues(values1, dirs)
    IN  IF trial0.state # COMPLETE THEN Returned(FALSE)
        ELSE IF trial1.state # COMPLETE THEN Returned(TRUE)
        ELSE IF Len(values0) # Len(values1) THEN Raised("ValueError")
        ELSE IF Len(values0) # Len(dirs) THEN Raised("ValueError")
        ELSE Returned(\A i \in 1..Len(normalized_values0) :
                          normalized_values0[i] <= normalized_values1[i])

(* _dominates, lines 158-187 *)
_dominates(trial0, trial1, dirs) ==
    LET values0 == trial0.values
        values1 == trial1.values
        normalized_values0 == NormalizedValues(values0, dirs)
        normalized_values1 == NormalizedValues(values1, dirs)
    IN  IF trial0.state # COMPLETE THEN Returned(FALSE)
        ELSE IF trial1.state # COMPLETE THEN Returned(TRUE)
        ELSE IF Len(values0) # Len(values1) THEN Raised("ValueError")
        ELSE IF Len(values0) # Len(dirs) THEN Raised("ValueError")
        ELSE IF normalized_values0 = normalized_values1 THEN Returned(FALSE)
        ELSE Returned(\A i \in 1..Len(normalized_values0) :
                          normalized_values0[i] <= normalized_values1[i])

----------------------------------------------------------------------------
(* list.sort(key=...): a stable ascending sort; key[i] is the key of s[i],  *)
(* a tuple of two numbers compared as Python compares tuples.               *)

TupleLess(a, b) == a[1] < b[1] \/ (a[1] = b[1] /\ a[2] < b[2])

\* a sort that leaves the list as it is
StableSort_NoSort(s, key) == s

StableSort(s, key) ==
    LET n == Len(s)
        pos(i) == 1 + Cardinality({j \in 1..n :
                         \/ TupleLess(key[j], key[i])
                         \/ (key[j] = key[i] /\ j < i)})
    IN  [p \in 1..n |-> s[CHOOSE i \in 1..n : pos(i) = p]]

(* the filter of lines 19 and 49 *)
CompleteTrials(ts) == SelectSeq(ts, LAMBDA t : t.state = COMPLETE)

(* the sweep without line 39: every candidate is compared with the first    *)
(* one kept                                                                 *)
RECURSIVE Sweep2D_KeepFirst(_, _, _, _, _)
Sweep2D_KeepFirst(sorted, i, last_nondominated_trial, front, dirs) ==
    IF i > Len(sorted) THEN Returned(front)
    ELSE LET trial == sorted[i]
             d == _dominates(last_nondominated_trial, trial, dirs)
         IN  IF d.exc # "None" THEN d
             ELSE IF d.ret
                  THEN Sweep2D_KeepFirst(sorted, i + 1, last_nondominated_trial, front, dirs)
             ELSE Sweep2D_KeepFirst(sorted, i + 1, last_nondominated_trial,
                                    Append(front, trial), dirs)

(* the sweep of lines 32-39, from index i on *)
RECURSIVE Sweep2D(_, _, _, _, _)
Sweep2D(sorted, i, last_nondominated_trial, front, dirs) ==
    IF i > Len(sorted) THEN Returned(front)
    ELSE LET trial == sorted[i]
             d == _dominates(last_nondominated_trial, trial, dirs)
         IN  IF d.exc # "None" THEN d
             ELSE IF d.ret THEN Sweep2D(sorted, i + 1, last_nondominated_trial, front, dirs)
             ELSE Sweep2D(sorted, i + 1, trial, Append(front, trial), dirs)

(* _get_pareto_front_trials_2d, lines 16-42 *)
_get_pareto_front_trials_2d(ts, dirs) ==
    LET complete == CompleteTrials(ts)
        n_trials == Len(complete)
    IN  IF n_trials = 0 THEN Returned(<<>>)
        ELSE IF Len(dirs) < 2 \/ \E i \in 1..n_trials : Len(complete[i].values) < 2
             THEN Raised("IndexError")
        ELSE LET key == [i \in 1..n_trials |->
                            <<_normalize_value(complete[i].values[1], dirs[1]),
                              _normalize_value(complete[i].values[2], dirs[2])>>]
                 sorted == StableSort(complete, key)
                 swept == Sweep2D(sorted, 2, sorted[1], <<sorted[1]>>, dirs)
             IN  IF swept.exc # "None" THEN swept
                 ELSE Returned(StableSort(swept.ret,
                          [i \in 1..Len(swept.ret) |-> <<swept.ret[i].number, 0>>]))

(* the inner loop of lines 54-57, from index j on: is trial dominated? *)
RECURSIVE ScanOthers(_, _, _, _)
ScanOthers(trial, complete, j, dirs) ==
    IF j > Len(complete) THEN Returned(FALSE)
    ELSE LET d == _dominates(complete[j], trial, dirs)
         IN  IF d.exc # "None" THEN d
             ELSE IF d.ret THEN Returned(TRUE)
             ELSE ScanOthers(trial, complete, j + 1, dirs)

(* the outer loop of lines 52-60, from index i on *)
RECURSIVE ScanTrials(_, _, _, _)
ScanTrials(complete, i, front, dirs) ==
    IF i > Len(complete) THEN Returned(front)
    ELSE LET dominated == ScanOthers(complete[i], complete, 1, dirs)
         IN  IF dominated.exc # "None" THEN dominated
             ELSE IF dominated.ret THEN ScanTrials(complete, i + 1, front, dirs)
             ELSE ScanTrials(complete, i + 1, Append(front, complete[i]), dirs)

(* _get_pareto_front_trials_nd, lines 45-62 *)
_get_pareto_front_trials_nd(ts, dirs) ==
    ScanTrials(CompleteTrials(ts), 1, <<>>, dirs)

(* _get_pareto_front_trials_by_trials, lines 65-70 *)
_get_pareto_front_trials_by_trials(ts, dirs) ==
    IF Len(dirs) = 2 THEN _get_pareto_front_trials_2d(ts, dirs)
    ELSE _get_pareto_front_trials_nd(ts, dirs)

----------------------------------------------------------------------------
(* _calculate_nondomination_rank, lines 118-155.  objective_values is a     *)
(* sequence of rows, each a sequence of numbers; indices are 1-based.  The  *)
(* locals of a call are the record                                          *)
(*   [objective_values, ranks, dominated_count, rank, ranked_idx_num,       *)
(*    n_below].                                                             *)

(* a domination matrix that asks for a strictly better value everywhere *)
DominationMat_Strict(ov) ==
    [i \in 1..Len(ov) |-> [j \in 1..Len(ov) |->
        \A c \in 1..Len(ov[i]) : ov[i][c] > ov[j][c]]]

(* domination_mat, lines 128-130: [i][j] means row j dominates row i *)
DominationMat(ov) ==
    [i \in 1..Len(ov) |-> [j \in 1..Len(ov) |->
        /\ \A c \in 1..Len(ov[i]) : ov[i][c] >= ov[j][c]
        /\ \E c \in 1..Len(ov[i]) : ov[i][c] > ov[j][c]]]

(* domination_map, lines 132-135: the rows that row j dominates *)
DominationMap(ov, j) == {i \in 1..Len(ov) : DominationMat(ov)[i][j]}

(* `rank += 1`, line 147.  Python's int is unbounded; the model counts rank *)
(* up to len(objective_values) + 2 and from there on keeps its parity only  *)
(* (it alternates between the last two values): by then the loop has run    *)
(* more iterations than there are rows, which only a call that never        *)
(* returns does (RankWithinRows below), and no row is given a rank any      *)
(* more, so the value is never stored nor returned.                         *)
IncrRank(ov, rank) == IF rank <= Len(ov) + 1 THEN rank + 1 ELSE rank - 1

(* n_below ignored: every call ranks all rows *)
NBelowOrLen_Ignored(ov, n_below_arg) == Len(ov)

(* `n_below = n_below or len(objective_values)`, line 142 *)
NBelowOrLen(ov, n_below_arg) ==
    IF n_below_arg = None \/ n_below_arg[1] = 0 THEN Len(ov) ELSE n_below_arg[1]

(* lines 128-142: the locals before the while loop *)
CalcEntry(ov, n_below_arg) ==
    [objective_values |-> ov,
     ranks |-> [i \in 1..Len(ov) |-> -1],
     dominated_count |-> [i \in 1..Len(ov) |->
                             Cardinality({j \in 1..Len(ov) : DominationMat(ov)[i][j]})],
     rank |-> -1,
     ranked_idx_num |-> 0,
     n_below |-> NBelowOrLen(ov, n_below_arg)]

(* the loop condition, line 143 *)
LoopCond(st) == st.ranked_idx_num < st.n_below

(* line 151 left out: ranked rows keep their count *)
MarkRanked_Forgotten(dominated_count, non_dominated_idxs) == dominated_count

(* `dominated_count[non_dominated_idxs] = -1`, line 151 *)
MarkRanked(dominated_count, non_dominated_idxs) ==
    [i \in DOMAIN dominated_count |->
        IF i \in non_dominated_idxs THEN -1 ELSE dominated_count[i]]

(* one iteration of the while loop, lines 144-153 *)
LoopBody(st) ==
    LET ov == st.objective_values
        non_dominated_idxs == {i \in 1..Len(ov) : st.dominated_count[i] = 0}
        rank1 == IncrRank(ov, st.rank)
        count1 == MarkRanked(st.dominated_count, non_dominated_idxs)
    IN  [objective_values |-> ov,
         ranks |-> [i \in 1..Len(ov) |->
                       IF i \in non_dominated_idxs THEN rank1 ELSE st.ranks[i]],
         dominated_count |-> [i \in 1..Len(ov) |->
             count1[i] - Cardinality({j \in non_dominated_idxs : i \in DominationMap(ov, j)})],
         rank |-> rank1,
         ranked_idx_num |-> st.ranked_idx_num + Cardinality(non_dominated_idxs),
         n_below |-> st.n_below]

(* the while loop run to its exit, lines 143-155 *)
RECURSIVE RunLoop(_)
RunLoop(st) == IF LoopCond(st) THEN RunLoop(LoopBody(st)) ELSE st

(* _calculate_nondomination_rank(objective_values), n_below omitted: the    *)
(* loop ends, since n_below is then the number of rows                      *)
FullRanking(ov) == RunLoop(CalcEntry(ov, None))

Numbers(front) == {front[i].number : i \in 1..Len(front)}

----------------------------------------------------------------------------
(* _fast_non_dominated_sort, lines 77-115.  penalty is None (<<>>) or       *)
(* <<p>> with p a sequence of floats, NaN being <<>> and the float v <<v>>. *)

NaN == <<>>

(* np.isnan(penalty), line 95 *)
IsNan(p) == [i \in 1..Len(p) |-> p[i] = NaN]

(* line 98 *)
IsFeasible(p) == [i \in 1..Len(p) |-> ~IsNan(p)[i] /\ p[i][1] <= 0]

(* line 105 *)
IsInfeasible(p) == [i \in 1..Len(p) |-> ~IsNan(p)[i] /\ p[i][1] > 0]

(* the positions a boolean mask selects, in order *)
RECURSIVE MaskIndices(_)
MaskIndices(mask) ==
    IF Len(mask) = 0 THEN <<>>
    ELSE LET front == MaskIndices(SubSeq(mask, 1, Len(mask) - 1))
         IN  IF mask[Len(mask)] THEN Append(front, Len(mask)) ELSE front

(* a[mask], lines 100, 107, 112 *)
Masked(a, mask) == [k \in 1..Len(MaskIndices(mask)) |-> a[MaskIndices(mask)[k]]]

(* a[mask] += b, lines 102, 109, 113 *)
AddMasked(a, mask, b) ==
    LET idx == MaskIndices(mask)
    IN  [i \in 1..Len(a) |->
            IF mask[i] THEN a[i] + b[CHOOSE k \in 1..Len(idx) : idx[k] = i] ELSE a[i]]

(* penalty[is_infeasible, np.newaxis], line 107: one column *)
PenaltyColumn(p, mask) ==
    [k \in 1..Len(MaskIndices(mask)) |-> <<p[MaskIndices(mask)[k]][1]>>]

----------------------------------------------------------------------------
(* Inputs of the frontier algorithms. *)

Trial(number, state, values) == [number |-> number, state |-> state, values |-> values]

\* A sequence of candidates from their states and values: numbered as
\* study.trials is (number = position - 1), or in the reverse order.
Numbered(shapes, reversed) ==
    [i \in 1..Len(shapes) |->
        Trial(IF reversed THEN Len(shapes) - i ELSE i - 1,
              shapes[i].state, shapes[i].values)]

\* Candidates with d objectives.  A non-complete candidate carries no value
\* the frontier algorithms read: lines 19 and 49 filter on the state first.
Shapes(d) ==
    {[state |-> COMPLETE, values |-> v] : v \in [1..d -> OptValues]}
        \cup {[state |-> RUNNING, values |-> [i \in 1..d |-> None]]}

\* the variables of the ranking functions, while no ranking call runs
IdleSort ==
    /\ objective_values = <<>>
    /\ penalty = None
    /\ n_below = None
    /\ nondomination_rank = <<>>
    /\ feasible_bottom_rank = -1
    /\ infeasible_bottom_rank = -1
    /\ calc = Unset
    /\ result = Unset

\* the result variables of the frontier functions, before any call
NoFrontResult ==
    /\ dominance = Unset
    /\ normalized = Unset
    /\ pareto_front_2d = Unset
    /\ pareto_front_nd = Unset
    /\ pareto_front = Unset
    /\ front_ranks = Unset

----------------------------------------------------------------------------
(* SpecEquiv: _get_pareto_front_trials_2d and _get_pareto_front_trials_nd   *)
(* on the same two-objective input.                                         *)

InitEquiv ==
    /\ pc = "input"
    /\ directions \in [1..2 -> StudyDirection]
    /\ \E n \in 0..MaxTrials : \E sh \in [1..n -> Shapes(2)] : \E reversed \in BOOLEAN :
          trials = Numbered(sh, reversed)
    /\ NoFrontResult
    /\ IdleSort

Call2D ==
    /\ pc = "input"
    /\ pareto_front_2d' = _get_pareto_front_trials_2d(trials, directions)
    /\ pc' = "2d"
    /\ UNCHANGED <<trials, directions, dominance, normalized, pareto_front_nd,
                   pareto_front, front_ranks, sortVars>>

CallND ==
    /\ pc = "2d"
    /\ pareto_front_nd' = _get_pareto_front_trials_nd(trials, directions)
    /\ pc' = "done"
    /\ UNCHANGED <<trials, directions, dominance, normalized, pareto_front_2d,
                   pareto_front, front_ranks, sortVars>>

NextEquiv == Call2D \/ CallND

SpecEquiv == InitEquiv /\ [][NextEquiv]_vars

(* C3: for two objectives the 2D sweep and the all-pairs scan both return,  *)
(* and return the same set of trial numbers, whatever the states, values,   *)
(* nulls, duplicates, input order and directions.                           *)
C3_SameFrontSet ==
    pc = "done" =>
        /\ pareto_front_2d.exc = "None"
        /\ pareto_front_nd.exc = "None"
        /\ Numbers(pareto_front_2d.ret) = Numbers(pareto_front_nd.ret)

(* C3 witness: three complete candidates in reverse numbering, one of them  *)
(* with a null, a duplicate pair, a front that leaves one candidate out and *)
(* whose order differs between the two algorithms.                          *)
C3_Witness ==
    /\ pc = "done"
    /\ Len(trials) = 3
    /\ trials[1].number = 2
    /\ \A i \in 1..3 : trials[i].state = COMPLETE
    /\ \E i \in 1..3 : None \in Range(trials[i].values)
    /\ trials[1].values = trials[2].values
    /\ Cardinality(Numbers(pareto_front_2d.ret)) = 2
    /\ pareto_front_2d.ret # pareto_front_nd.ret

----------------------------------------------------------------------------
(* SpecDom: _dominates and _normalize_value over three candidates whose     *)
(* value count is len(directions).                                          *)

\* candidates with d objectives, complete or not, with any values
AnyShapes(d) == {[state |-> st, values |-> v] : st \in TrialState, v \in [1..d -> OptValues]}

InitDom ==
    /\ pc = "input"
    /\ \E d \in 1..2 :
          /\ directions \in [1..d -> StudyDirection]
          /\ \E sh \in [1..3 -> AnyShapes(d)] : trials = Numbered(sh, FALSE)
    /\ NoFrontResult
    /\ IdleSort

CallDominates ==
    /\ pc = "input"
    /\ dominance' = [i \in 1..Len(trials) |-> [j \in 1..Len(trials) |->
                        _dominates(trials[i], trials[j], directions)]]
    /\ pc' = "compared"
    /\ UNCHANGED <<trials, directions, normalized, pareto_front_2d, pareto_front_nd,
                   pareto_front, front_ranks, sortVars>>

CallNormalize ==
    /\ pc = "compared"
    /\ normalized' = [i \in 1..Len(trials) |-> [c \in 1..Len(directions) |->
                         _normalize_value(trials[i].values[c], directions[c])]]
    /\ pc' = "done"
    /\ UNCHANGED <<trials, directions, dominance, pareto_front_2d, pareto_front_nd,
                   pareto_front, front_ranks, sortVars>>

NextDom == CallDominates \/ CallNormalize

SpecDom == InitDom /\ [][NextDom]_vars

Dom(i, j) == dominance[i][j].exc = "None" /\ dominance[i][j].ret

(* C4: for fixed directions _dominates never raises on candidates whose     *)
(* value count is len(directions) and is a strict partial order on them,    *)
(* complete or not: irreflexive, asymmetric, transitive; a non-complete     *)
(* candidate dominates nothing and every complete one dominates it.         *)
C4_StrictPartialOrder ==
    pc = "done" =>
        \A i, j, k \in 1..Len(trials) :
            /\ dominance[i][j].exc = "None"
            /\ ~Dom(i, i)
            /\ Dom(i, j) => ~Dom(j, i)
            /\ (Dom(i, j) /\ Dom(j, k)) => Dom(i, k)
            /\ trials[i].state # COMPLETE => ~Dom(i, j)
            /\ (trials[i].state = COMPLETE /\ trials[j].state # COMPLETE) => Dom(i, j)

(* C4 witness: a chain a > b > c of two complete candidates and a           *)
(* non-complete one, under mixed directions, with a null value.             *)
C4_Witness ==
    /\ pc = "done"
    /\ directions = <<MINIMIZE, MAXIMIZE>>
    /\ trials[1].state = COMPLETE /\ trials[2].state = COMPLETE
    /\ trials[3].state # COMPLETE
    /\ None \in Range(trials[2].values)
    /\ Dom(1, 2) /\ Dom(2, 3) /\ Dom(1, 3)

(* C5: a null is the worst value of its objective under both directions:    *)
(* it normalizes to +inf, no non-null value normalizes to more, and a       *)
(* complete candidate that differs from another complete one only by a null *)
(* in one objective does not dominate it.                                   *)
C5_NullIsWorst ==
    pc = "done" =>
        /\ \A i \in 1..Len(trials), c \in 1..Len(directions) :
              trials[i].values[c] = None =>
                  /\ normalized[i][c] = Inf
                  /\ \A v \in FiniteValues :
                        normalized[i][c] >= _normalize_value(Some(v), directions[c])
        /\ \A i, j \in 1..Len(trials) :
              (/\ trials[i].state = COMPLETE /\ trials[j].state = COMPLETE
               /\ \E c \in 1..Len(directions) :
                     /\ trials[i].values[c] = None
                     /\ trials[j].values[c] # None
                     /\ \A b \in 1..Len(directions) \ {c} :
                           trials[i].values[b] = trials[j].values[b])
                  => ~Dom(i, j)

----------------------------------------------------------------------------
(* SpecFront: _get_pareto_front_trials_by_trials, and the full ranking of   *)
(* _calculate_nondomination_rank over the same candidates: complete, with   *)
(* non-null values, one to three objectives.                                *)

\* the scenario of the specification's section 8
ScenarioDirections == <<MINIMIZE, MINIMIZE>>
ScenarioTrials ==
    <<Trial(0, COMPLETE, <<Some(1), Some(2)>>), Trial(1, COMPLETE, <<Some(2), Some(1)>>),
      Trial(2, COMPLETE, <<Some(1), Some(1)>>), Trial(3, COMPLETE, <<Some(3), Some(3)>>)>>

\* the finite values of candidates with d objectives
FrontValues(d) == IF d < 3 THEN {0, 1, 2} ELSE {0, 1}

CompleteShapes(d) ==
    {[state |-> COMPLETE, values |-> v] : v \in [1..d -> {Some(x) : x \in FrontValues(d)}]}

InitFront ==
    /\ pc = "input"
    /\ \/ \E d \in 1..3 :
             /\ directions \in [1..d -> StudyDirection]
             /\ \E n \in 0..MaxTrials : \E sh \in [1..n -> CompleteShapes(d)] :
                   trials = Numbered(sh, FALSE)
       \/ /\ directions = ScenarioDirections
          /\ trials = ScenarioTrials
    /\ NoFrontResult
    /\ IdleSort

CallByTrials ==
    /\ pc = "input"
    /\ pareto_front' = _get_pareto_front_trials_by_trials(trials, directions)
    /\ pc' = "front"
    /\ UNCHANGED <<trials, directions, dominance, normalized, pareto_front_2d,
                   pareto_front_nd, front_ranks, sortVars>>

\* the rows of the candidates, in minimize-equivalent space
NormalizedRows(ts, dirs) == [i \in 1..Len(ts) |-> NormalizedValues(ts[i].values, dirs)]

CallRank ==
    /\ pc = "front"
    /\ front_ranks' = Returned(FullRanking(NormalizedRows(trials, directions)).ranks)
    /\ pc' = "done"
    /\ UNCHANGED <<trials, directions, dominance, normalized, pareto_front_2d,
                   pareto_front_nd, pareto_front, sortVars>>

NextFront == CallByTrials \/ CallRank

SpecFront == InitFront /\ [][NextFront]_vars

(* C2: over complete candidates with non-null values, for every direction   *)
(* vector, frontier extraction returns, and a candidate is in the returned  *)
(* front iff the full non-domination ranking gives its normalized row rank  *)
(* 0.                                                                       *)
C2_FrontIsRankZero ==
    pc = "done" =>
        /\ pareto_front.exc = "None"
        /\ \A i \in 1..Len(trials) :
              trials[i].number \in Numbers(pareto_front.ret) <=> front_ranks.ret[i] = 0

(* C2 witness: three objectives (the ND path), three candidates, one of     *)
(* them outside the front and one inside.                                   *)
C2_Witness ==
    /\ pc = "done"
    /\ Len(directions) = 3
    /\ Len(trials) = 3
    /\ MAXIMIZE \in Range(directions)
    /\ \E i, j \in 1..3 :
          /\ front_ranks.ret[i] = 0 /\ trials[i].number \in Numbers(pareto_front.ret)
          /\ front_ranks.ret[j] > 0 /\ trials[j].number \notin Numbers(pareto_front.ret)

IsScenario == trials = ScenarioTrials /\ directions = ScenarioDirections

(* C8 as stated: in the scenario the front is {0, 1, 2} and the rank array  *)
(* is [0, 0, 0, 1].                                                         *)
C8_ScenarioAsStated ==
    (pc = "done" /\ IsScenario) =>
        /\ pareto_front.exc = "None"
        /\ Numbers(pareto_front.ret) = {0, 1, 2}
        /\ front_ranks.ret = <<0, 0, 0, 1>>

(* C8 amended: in the scenario candidate 2, (1,1), dominates the other      *)
(* three: the front is {2}, candidates 0, 1 and 3 are excluded, and the     *)
(* rank array is [1, 1, 0, 2].                                              *)
C8_Scenario ==
    (pc = "done" /\ IsScenario) =>
        /\ pareto_front.exc = "None"
        /\ Numbers(pareto_front.ret) = {2}
        /\ front_ranks.ret = <<1, 1, 0, 2>>

(* C8 witness: the scenario has been run to its end. *)
C8_Witness == pc = "done" /\ IsScenario /\ Len(pareto_front.ret) = 1

----------------------------------------------------------------------------
(* SpecShape: _get_pareto_front_trials_by_trials on candidates whose value  *)
(* count may differ from len(directions).                                   *)

\* candidates with one to three values each
RaggedShapes ==
    UNION {{[state |-> COMPLETE, values |-> v] : v \in [1..l -> {Some(0), Some(1)}]}
              : l \in 1..3}
        \cup {[state |-> RUNNING, values |-> <<>>]}

InitShape ==
    /\ pc = "input"
    /\ directions \in UNION {[1..d -> StudyDirection] : d \in 1..3}
    /\ \E n \in 0..MaxTrials : \E sh \in [1..n -> RaggedShapes] :
          trials = Numbered(sh, FALSE)
    /\ NoFrontResult
    /\ IdleSort

NextShape == CallByTrials

SpecShape == InitShape /\ [][NextShape]_vars

Mismatched(i) ==
    trials[i].state = COMPLETE /\ Len(trials[i].values) # Len(directions)

(* C7: frontier extraction fails, and returns nothing, whenever a complete  *)
(* candidate has a value count other than len(directions), for every input  *)
(* size and on both the 2D and the ND path.                                 *)
C7_MismatchIsFatal ==
    (pc = "front" /\ \E i \in 1..Len(trials) : Mismatched(i)) =>
        pareto_front.exc # "None"

(* What the code does about C7: a mismatch goes unnoticed exactly on the 2D *)
(* path when a single complete candidate, with more than two values, is     *)
(* given: it is sorted and returned without any call of _dominates.         *)
MismatchReturnsOnlyFor2DSingle ==
    (pc = "front" /\ \E i \in 1..Len(trials) : Mismatched(i)) =>
        (pareto_front.exc = "None" <=>
            /\ Len(directions) = 2
            /\ Len(CompleteTrials(trials)) = 1
            /\ Len(CompleteTrials(trials)[1].values) > 2)

----------------------------------------------------------------------------
(* SpecSort: a call of _fast_non_dominated_sort, one step per iteration of  *)
(* the while loop of _calculate_nondomination_rank.  pc names the call of   *)
(* _calculate_nondomination_rank that is running.                           *)

\* the result variables of the frontier functions, while no such call runs
IdleFront ==
    /\ trials = <<>>
    /\ directions = <<>>
    /\ NoFrontResult

\* objective matrices of n rows and k columns
Matrices(n, k, values) == [1..n -> [1..k -> values]]

\* n_below: omitted, or 0 .. MaxRows + 1 (more than any matrix has rows)
NBelowArgs == {None} \cup {Some(m) : m \in 0..(MaxRows + 1)}

\* penalties: feasible (<= 0), two infeasible values, NaN
PenaltyValues == {Some(0), Some(1), Some(2), NaN}

InitCall ==
    /\ pc = "sort"
    /\ nondomination_rank = <<>>
    /\ feasible_bottom_rank = -1
    /\ infeasible_bottom_rank = -1
    /\ calc = Unset
    /\ result = Unset
    /\ IdleFront

(* lines 83-84: no penalty, rank all rows *)
FastSortPlain ==
    /\ pc = "sort"
    /\ penalty = None
    /\ calc' = CalcEntry(objective_values, n_below)
    /\ pc' = "plain"
    /\ UNCHANGED <<frontVars, sortArgs, nondomination_rank, feasible_bottom_rank,
                   infeasible_bottom_rank, result>>

(* lines 87-93 *)
FastSortRaise ==
    /\ pc = "sort"
    /\ penalty # None
    /\ Len(penalty[1]) # Len(objective_values)
    /\ result' = Raised("ValueError")
    /\ pc' = "raised"
    /\ UNCHANGED <<frontVars, sortArgs, nondomination_rank, feasible_bottom_rank,
                   infeasible_bottom_rank, calc>>

(* lines 94-100: the call for the feasible rows *)
FastSortFeasible ==
    /\ pc = "sort"
    /\ penalty # None
    /\ Len(penalty[1]) = Len(objective_values)
    /\ nondomination_rank' = [i \in 1..Len(objective_values) |-> 0]
    /\ calc' = CalcEntry(Masked(objective_values, IsFeasible(penalty[1])), n_below)
    /\ pc' = "feasible"
    /\ UNCHANGED <<frontVars, sortArgs, feasible_bottom_rank, infeasible_bottom_rank, result>>

(* lines 143-153: one iteration of the while loop *)
LoopIteration ==
    /\ pc \in {"plain", "feasible", "infeasible", "unknown"}
    /\ LoopCond(calc)
    /\ calc' = LoopBody(calc)
    /\ UNCHANGED <<pc, frontVars, sortArgs, nondomination_rank, feasible_bottom_rank,
                   infeasible_bottom_rank, result>>

(* line 155, then lines 84-85 *)
ReturnPlain ==
    /\ pc = "plain"
    /\ ~LoopCond(calc)
    /\ result' = Returned(calc.ranks)
    /\ pc' = "done"
    /\ UNCHANGED <<frontVars, sortArgs, nondomination_rank, feasible_bottom_rank,
                   infeasible_bottom_rank, calc>>

(* line 155, then lines 99-108: the call for the infeasible rows *)
ReturnFeasible ==
    /\ pc = "feasible"
    /\ ~LoopCond(calc)
    /\ nondomination_rank' = AddMasked(nondomination_rank, IsFeasible(penalty[1]), calc.ranks)
    /\ feasible_bottom_rank' = calc.rank
    /\ calc' = CalcEntry(PenaltyColumn(penalty[1], IsInfeasible(penalty[1])), n_below)
    /\ pc' = "infeasible"
    /\ UNCHANGED <<frontVars, sortArgs, infeasible_bottom_rank, result>>

(* line 155, then lines 106-112: the call for the rows without penalty *)
ReturnInfeasible ==
    /\ pc = "infeasible"
    /\ ~LoopCond(calc)
    /\ nondomination_rank' =
           AddMasked(nondomination_rank, IsInfeasible(penalty[1]),
                     [k \in 1..Len(calc.ranks) |-> calc.ranks[k] + (feasible_bottom_rank + 1)])
    /\ infeasible_bottom_rank' = calc.rank
    /\ calc' = CalcEntry(Masked(objective_values, IsNan(penalty[1])), n_below)
    /\ pc' = "unknown"
    /\ UNCHANGED <<frontVars, sortArgs, feasible_bottom_rank, result>>

(* line 155, then lines 112-115 *)
ReturnUnknown ==
    /\ pc = "unknown"
    /\ ~LoopCond(calc)
    /\ nondomination_rank' =
           AddMasked(nondomination_rank, IsNan(penalty[1]),
                     [k \in 1..Len(calc.ranks) |->
                         calc.ranks[k] + (feasible_bottom_rank + 1)
                                       + (infeasible_bottom_rank + 1)])
    /\ result' = Returned(nondomination_rank')
    /\ pc' = "done"
    /\ UNCHANGED <<frontVars, sortArgs, feasible_bottom_rank, infeasible_bottom_rank, calc>>

----------------------------------------------------------------------------
(* SpecRank: the calls without penalty, which are the calls of              *)
(* _calculate_nondomination_rank(objective_values, n_below=n_below).        *)

InitRank ==
    /\ \E n \in 0..MaxRows, k \in 1..2 : objective_values \in Matrices(n, k, {0, 1, 2})
    /\ penalty = None
    /\ n_below \in NBelowArgs
    /\ InitCall

NextRank == FastSortPlain \/ LoopIteration \/ ReturnPlain

SpecRank == InitRank /\ [][NextRank]_vars

\* the number of rows a full ranking puts in the fronts 0..q
RankedUpTo(full, q) == Cardinality({i \in 1..Len(full) : full[i] <= q})

\* the first front index at which the full ranking has ranked at least m rows
FirstFrontReaching(full, m) ==
    CHOOSE q \in 0..Len(full) :
        RankedUpTo(full, q) >= m /\ \A p \in 0..(q - 1) : RankedUpTo(full, p) < m

(* C6: with n_below = m, 1 <= m <= n and no penalty, the ranking returns at *)
(* the first front index r at which at least m rows are ranked, returns r   *)
(* as the maximum rank, gives every row of full rank <= r its full rank and *)
(* leaves every other row at -1; the full ranking is that of                *)
(* _calculate_nondomination_rank with n_below omitted.                      *)
C6_PartialRanking ==
    (/\ pc = "done"
     /\ n_below # None
     /\ 1 <= n_below[1] /\ n_below[1] <= Len(objective_values)) =>
        LET full == FullRanking(objective_values).ranks
            r == FirstFrontReaching(full, n_below[1])
        IN  /\ calc.rank = r
            /\ result.exc = "None"
            /\ \A i \in 1..Len(objective_values) :
                  result.ret[i] = IF full[i] <= r THEN full[i] ELSE -1

(* C6 witness: three rows in three fronts, n_below = 2: the call returns    *)
(* after the second front and leaves the third row unranked.                *)
C6_Witness ==
    /\ pc = "done"
    /\ n_below = Some(2)
    /\ Len(objective_values) = 3
    /\ calc.rank = 1
    /\ \E i, j, k \in 1..3 :
          result.ret[i] = 0 /\ result.ret[j] = 1 /\ result.ret[k] = -1
    /\ \E k \in 1..3 : FullRanking(objective_values).ranks[k] = 2

\* the rows not yet ranked that dominate row i
UnrankedDominators(i) ==
    {j \in 1..Len(calc.ranks) :
        calc.ranks[j] = -1 /\ DominationMat(calc.objective_values)[i][j]}

\* at the head of the loop (before every iteration, and at its exit)
AtLoopHead == pc \in {"plain", "feasible", "infeasible", "unknown"}

LoopInvariant ==
    AtLoopHead =>
        \A i \in 1..Len(calc.ranks) :
            /\ calc.ranks[i] # -1 => calc.dominated_count[i] = -1
            /\ calc.ranks[i] = -1 =>
                  /\ calc.dominated_count[i] = Cardinality(UnrankedDominators(i))
                  /\ calc.dominated_count[i] >= 0
            /\ \A j \in 1..Len(calc.ranks) :
                  calc.objective_values[i] = calc.objective_values[j] =>
                      calc.ranks[i] = calc.ranks[j]

\* an iteration selects only unranked rows and leaves every rank given alone
RankedOnce ==
    (AtLoopHead /\ pc' = pc) =>
        \A i \in 1..Len(calc.ranks) :
            calc.ranks[i] # -1 =>
                /\ calc.dominated_count[i] # 0
                /\ calc'.ranks[i] = calc.ranks[i]

(* C10: at the head of the front-peeling loop every ranked row has          *)
(* dominated_count -1 and every unranked row has dominated_count equal to   *)
(* the number of unranked rows that dominate it; rows with identical        *)
(* vectors carry the same rank; and an iteration never selects a ranked row *)
(* nor changes its rank.                                                    *)
C10_LoopInvariant == [][RankedOnce]_vars /\ []LoopInvariant

(* C10 witness: at the loop head after the first iteration, with two        *)
(* identical rows ranked together in the first front and a row still        *)
(* unranked whose two dominators are both ranked.                           *)
C10_Witness ==
    /\ pc = "plain"
    /\ LoopCond(calc)
    /\ calc.rank = 0
    /\ \E i, j, k \in 1..Len(calc.ranks) :
          /\ i # j /\ calc.objective_values[i] = calc.objective_values[j]
          /\ calc.ranks[i] = 0 /\ calc.ranks[j] = 0
          /\ calc.ranks[k] = -1 /\ calc.dominated_count[k] = 0
          /\ DominationMat(calc.objective_values)[k][i]
          /\ DominationMat(calc.objective_values)[k][j]

(* A call that leaves the loop has a maximum rank below its number of rows, *)
(* so that the bound of IncrRank is met only by calls that never return.    *)
RankWithinRows ==
    (AtLoopHead /\ ~LoopCond(calc)) => calc.rank < Len(calc.objective_values)

----------------------------------------------------------------------------
(* SpecSort: the calls with or without penalty.                             *)

\* the arguments of a call: penalty omitted, of the length of the matrix, or
\* one longer
SortArguments(maxrows) ==
    /\ \E n \in 0..maxrows : objective_values \in Matrices(n, 1, {0, 1})
    /\ n_below \in {None} \cup {Some(m) : m \in 0..(maxrows + 1)}
    /\ \/ penalty = None
       \/ \E p \in [1..Len(objective_values) -> PenaltyValues] : penalty = Some(p)
       \/ /\ Len(objective_values) < maxrows
          /\ \E p \in [1..(Len(objective_values) + 1) -> PenaltyValues] : penalty = Some(p)

InitSort == SortArguments(MaxSortRows) /\ InitCall

NextSort ==
    \/ FastSortPlain
    \/ FastSortRaise
    \/ FastSortFeasible
    \/ LoopIteration
    \/ ReturnPlain
    \/ ReturnFeasible
    \/ ReturnInfeasible
    \/ ReturnUnknown

SpecSort == InitSort /\ [][NextSort]_vars

(* SpecTerm: the same calls on matrices of up to MaxTermRows rows.  The     *)
(* interpreter runs a call step by step until it returns or raises: weak    *)
(* fairness of the next-state relation.                                     *)
InitTerm == SortArguments(MaxTermRows) /\ InitCall

SpecTerm == InitTerm /\ [][NextSort]_vars /\ WF_vars(NextSort)

Feasible == {i \in 1..Len(objective_values) : IsFeasible(penalty[1])[i]}
Infeasible == {i \in 1..Len(objective_values) : IsInfeasible(penalty[1])[i]}
Unknown == {i \in 1..Len(objective_values) : IsNan(penalty[1])[i]}

\* every rank of the rows in A is below every rank of the rows in B
AllBelow(A, B) == \A i \in A, j \in B : result.ret[i] < result.ret[j]

\* some rank r of the rows in A is the least one, and is below every rank in B
MinBelow(A, B) == \E i \in A : \A j \in B : result.ret[i] < result.ret[j]

(* C1: a constraint-aware ranking that returns puts every feasible row      *)
(* before every infeasible row (max feasible rank < min infeasible rank)    *)
(* and the best infeasible row before every row of unknown penalty (min     *)
(* infeasible rank < min unknown rank), n_below given or not.               *)
C1_PartitionPrecedence ==
    (pc = "done" /\ penalty # None) =>
        /\ AllBelow(Feasible, Infeasible)
        /\ (Infeasible # {} /\ Unknown # {}) => MinBelow(Infeasible, Unknown)
        /\ AllBelow(Feasible, Unknown)

(* What the code does about C1: the precedence holds when n_below is        *)
(* omitted (or 0), where every partition is ranked in full.                 *)
PrecedenceWhenRankedInFull ==
    (pc = "done" /\ penalty # None /\ (n_below = None \/ n_below = Some(0))) =>
        /\ AllBelow(Feasible, Infeasible)
        /\ AllBelow(Infeasible, Unknown)
        /\ AllBelow(Feasible, Unknown)

(* C9: every call leaves the front-peeling loop: it returns or raises,      *)
(* whatever the matrix and n_below.                                         *)
C9_Terminates == <>(pc \in {"done", "raised"})

(* What the code does about C9: a call of _calculate_nondomination_rank     *)
(* returns iff its n_below is at most the number of its rows; otherwise the *)
(* loop runs on with every row ranked, ranked_idx_num below n_below.        *)
LoopStuck ==
    /\ AtLoopHead
    /\ calc.ranked_idx_num = Len(calc.objective_values)
    /\ calc.ranked_idx_num < calc.n_below

StuckForever == [][LoopStuck => LoopStuck']_vars

\* an iteration ranks a row, unless the loop is stuck
ProgressOrStuck ==
    (AtLoopHead /\ LoopCond(calc)) =>
        (\E i \in 1..Len(calc.ranks) : calc.dominated_count[i] = 0) \/ LoopStuck

====
